---- MODULE Spec2Model ----
(***************************************************************************)
(* Model of src/app.py: a Streamlit page that uploads a file to gofile.io  *)
(* (discovery call, then upload call) and shows the public link together   *)
(* with a confirmation message composed by a generative-text call or by a  *)
(* fixed fallback template.                                                *)
(*                                                                         *)
(* One Python process serves several browser sessions.  Every widget       *)
(* interaction of a session re-runs main() top to bottom for that session; *)
(* runs of different sessions interleave at the steps modelled below.  The *)
(* only state the sessions share is os.environ["OPENAI_API_KEY"].          *)
(*                                                                         *)
(* A Python str is a sequence of pieces (strings), the empty str being     *)
(* << >>; a literal of the source is one piece, data whose characters      *)
(* matter (the completion text that is stripped) is one piece per          *)
(* character.                                                              *)
(***************************************************************************)
EXTENDS Naturals, Sequences, FiniteSets, TLC

VARIABLES
    live,       \* the browser sessions connected to the process
    proc,       \* the Python process: "boot" (client not yet constructed), "up", "crashed"
    env,        \* os.environ["OPENAI_API_KEY"]: [set |-> FALSE] or [set |-> TRUE, v |-> str]
    lastWrite,  \* history: who assigned env last ("environ" before any sidebar write) and what
    keyInput,   \* per session: value of the sidebar text_input "OPENAI_API_KEY"
    uploaded,   \* per session: value of the file_uploader
    clicked,    \* per session: whether st.button returns True in the current run
    pc,         \* per session: position of the current run of main()
    server,     \* per session: local `server` of upload_to_gofile
    link,       \* per session: local `link` of main
    http,       \* per session: the requests the current run has made, with their responses
    page        \* per session: the elements the current run has rendered in the main area

vars == <<live, proc, env, lastWrite, keyInput, uploaded, clicked, pc, server, link, http, page>>

-----------------------------------------------------------------------------
(* Bounds and input sets *)

MaxContentLen == 2          \* longest completion text, in characters

Sessions == {"s1", "s2"}
Keys == {<<"sk-A">>, <<"sk-B">>}
FileNames == {<<"deck.pdf">>}
ContentChars == {" ", "\n", "a"}
Whitespace == {" ", "\n", "\t", "\r"}

-----------------------------------------------------------------------------
(* JSON / Python values *)

Absent == [t |-> "absent"]                  \* key not in the dict
Null == [t |-> "null"]                      \* JSON null, Python None
Str(s) == [t |-> "str", v |-> s]

\* dict.get(key): None when the key is absent
Get(v) == IF v.t = "absent" THEN Null ELSE v

\* Python truthiness of None / str
Truthy(v) == v.t = "str" /\ v.v # <<>>

\* a or b
PyOr(a, b) == IF Truthy(a) THEN a ELSE b

\* "{x}" in an f-string, for None / str
PyStr(v) == IF v.t = "null" THEN <<"None">> ELSE v.v

NoData == [kind |-> "none"]
Exc(type, msg) == [type |-> type, msg |-> msg, data |-> NoData]
Return(v) == [raised |-> FALSE, value |-> v]
Raise(e) == [raised |-> TRUE, exc |-> e]

UnsetEnv == [set |-> FALSE]
SetEnv(k) == [set |-> TRUE, v |-> k]

\* os.getenv("OPENAI_API_KEY"): None when unset
getenv(e) == IF e.set THEN Str(e.v) ELSE Null

NoFile == [present |-> FALSE]
File(n) == [present |-> TRUE, name |-> n]

-----------------------------------------------------------------------------
(* What the three external services may answer *)

Statuses == {Absent, Str(<<"ok">>), Str(<<"error">>)}

\* Outcomes of GET https://api.gofile.io/getServer: the transport fails, the
\* status is not 2xx, the body is not JSON, the body is JSON but no object,
\* or the body is an object with optional "status" and "data".
ServerValues == {Absent, Null, Str(<<"store1">>), Str(<<"store2">>)}
DiscoveryData == {Absent, Null} \cup {[t |-> "dict", server |-> sv] : sv \in ServerValues}
DiscoveryResponses ==
    {[kind |-> k] : k \in {"transport", "http", "notjson", "notdict"}}
    \cup {[kind |-> "json", status |-> st, data |-> d] : st \in Statuses, d \in DiscoveryData}

\* Outcomes of POST https://{server}.gofile.io/uploadFile.
Page1 == <<"https://gofile.io/d/abc123">>
Direct1 == <<"https://store1.gofile.io/download/abc123/deck.pdf">>
PageValues == {Absent, Null, Str(<< >>), Str(Page1)}
DirectValues == {Absent, Null, Str(<< >>), Str(Direct1)}
IdValues == {Absent, Str(<<"abc123">>)}
UploadData ==
    {Absent, Null}
    \cup {[t |-> "dict", downloadPage |-> a, directLink |-> b, fileId |-> c] :
             a \in PageValues, b \in DirectValues, c \in IdValues}
UploadResponses ==
    {[kind |-> k] : k \in {"transport", "http", "notjson", "notdict"}}
    \cup {[kind |-> "json", status |-> st, data |-> d] : st \in Statuses, d \in UploadData}

\* Outcomes of client.chat.completions.create: the call raises, or it returns
\* an object with a list of choices, each with a message content (None or str).
RECURSIVE StringsUpTo(_)
StringsUpTo(n) ==
    IF n = 0 THEN {<< >>}
    ELSE LET shorter == StringsUpTo(n - 1)
         IN  shorter \cup {Append(w, c) : w \in shorter, c \in ContentChars}
Contents == {Null} \cup {Str(w) : w \in StringsUpTo(MaxContentLen)}
Choice(c) == [message |-> [content |-> c]]
MoreChoices == {<< >>, <<Choice(Str(<<"z">>))>>}
ChatResponses ==
    {[kind |-> "raise"], [kind |-> "ok", choices |-> << >>]}
    \cup {[kind |-> "ok", choices |-> <<Choice(c)>> \o more] : c \in Contents, more \in MoreChoices}

\* With one session connected every answer above is explored; with several
\* sessions, whose runs interleave, one answer of each kind that main()
\* distinguishes.
SharedDiscoveryResponses ==
    {[kind |-> "transport"],
     [kind |-> "json", status |-> Str(<<"error">>), data |-> Absent],
     [kind |-> "json", status |-> Str(<<"ok">>), data |-> [t |-> "dict", server |-> Str(<<"store1">>)]]}
SharedUploadResponses ==
    {[kind |-> "http"],
     [kind |-> "json", status |-> Str(<<"error">>), data |-> Absent],
     [kind |-> "json", status |-> Str(<<"ok">>),
      data |-> [t |-> "dict", downloadPage |-> Absent, directLink |-> Absent, fileId |-> Absent]],
     [kind |-> "json", status |-> Str(<<"ok">>),
      data |-> [t |-> "dict", downloadPage |-> Str(Page1), directLink |-> Str(Direct1),
                fileId |-> Str(<<"abc123">>)]]}
SharedChatResponses ==
    {[kind |-> "raise"], [kind |-> "ok", choices |-> <<Choice(Str(<<"a", " ">>))>>]}

DiscoveryAnswers == IF Cardinality(live) = 1 THEN DiscoveryResponses ELSE SharedDiscoveryResponses
UploadAnswers == IF Cardinality(live) = 1 THEN UploadResponses ELSE SharedUploadResponses
ChatAnswers == IF Cardinality(live) = 1 THEN ChatResponses ELSE SharedChatResponses

-----------------------------------------------------------------------------
(* The functions of app.py, as functions of the response they receive *)

\* Variant: the status of the body is not compared with "ok".
get_gofile_server_NoStatusCheck(resp) ==
    IF resp.kind = "json" /\ resp.data.t = "dict" /\ resp.data.server.t # "absent"
    THEN Return(resp.data.server)
    ELSE Raise(Exc("RuntimeError", <<"Failed to retrieve upload server from gofile.io.">>))

\* get_gofile_server(): the value returned or the exception raised.
get_gofile_server(resp) ==
    CASE resp.kind = "transport" -> Raise(Exc("ConnectionError", <<"connection failed">>))
      [] resp.kind = "http" -> Raise(Exc("HTTPError", <<"500 Server Error">>))
      [] resp.kind = "notjson" -> Raise(Exc("JSONDecodeError", <<"Expecting value">>))
      [] resp.kind = "notdict" ->
            Raise(Exc("AttributeError", <<"'list' object has no attribute 'get'">>))
      [] resp.kind = "json" ->
            IF Get(resp.status) # Str(<<"ok">>) \/ resp.data.t = "absent"
            THEN Raise(Exc("RuntimeError", <<"Failed to retrieve upload server from gofile.io.">>))
            ELSE IF resp.data.t = "null"
            THEN Raise(Exc("TypeError", <<"argument of type 'NoneType' is not iterable">>))
            ELSE IF resp.data.server.t = "absent"
            THEN Raise(Exc("RuntimeError", <<"Failed to retrieve upload server from gofile.io.">>))
            ELSE Return(resp.data.server)

\* Variant: the host is written out instead of taken from the discovery.
UploadUrl_FixedHost(srv) == <<"https://", "store1", ".gofile.io/uploadFile">>

\* f"https://{server}.gofile.io/uploadFile"
UploadUrl(srv) == <<"https://">> \o PyStr(srv) \o <<".gofile.io/uploadFile">>

\* Variant: the status of the body is not compared with "ok".
upload_to_gofile_NoStatusCheck(resp) ==
    IF resp.kind = "json" /\ resp.data.t = "dict"
    THEN Return([downloadPage |-> Get(resp.data.downloadPage),
                 directLink |-> Get(resp.data.directLink),
                 fileId |-> Get(resp.data.fileId)])
    ELSE Raise(Exc("RuntimeError", <<"Upload failed">>))

\* upload_to_gofile() from the POST on: the dict returned or the exception raised.
upload_to_gofile(resp) ==
    CASE resp.kind = "transport" -> Raise(Exc("ConnectionError", <<"connection failed">>))
      [] resp.kind = "http" -> Raise(Exc("HTTPError", <<"500 Server Error">>))
      [] resp.kind = "notjson" -> Raise(Exc("JSONDecodeError", <<"Expecting value">>))
      [] resp.kind = "notdict" ->
            Raise(Exc("AttributeError", <<"'list' object has no attribute 'get'">>))
      [] resp.kind = "json" ->
            IF Get(resp.status) # Str(<<"ok">>) \/ resp.data.t = "absent"
            THEN Raise([type |-> "RuntimeError", msg |-> <<"Upload failed: ">>,
                        data |-> [kind |-> "repr", status |-> resp.status, data |-> resp.data]])
            ELSE IF resp.data.t = "null"
            THEN Raise(Exc("AttributeError", <<"'NoneType' object has no attribute 'get'">>))
            ELSE Return([downloadPage |-> Get(resp.data.downloadPage),
                         directLink |-> Get(resp.data.directLink),
                         fileId |-> Get(resp.data.fileId)])

\* Variant: the two fields in the other order.
ResultLink_DirectFirst(result) == PyOr(Get(result.directLink), Get(result.downloadPage))

\* result.get("downloadPage") or result.get("directLink")
ResultLink(result) == PyOr(Get(result.downloadPage), Get(result.directLink))

\* str.strip()
RECURSIVE LStrip(_)
LStrip(w) == IF w # << >> /\ Head(w) \in Whitespace THEN LStrip(Tail(w)) ELSE w
RECURSIVE RStrip(_)
RStrip(w) ==
    IF w # << >> /\ w[Len(w)] \in Whitespace THEN RStrip(SubSeq(w, 1, Len(w) - 1)) ELSE w
Strip(w) == RStrip(LStrip(w))

\* f"Your pitch deck is ready! Share this global link: {link}"
FallbackMessage(lnk) == <<"Your pitch deck is ready! Share this global link: ">> \o lnk

\* Variant: `os.getenv("OPENAI_API_KEY") is None`
KeyMissing_UnsetOnly(e) == ~e.set

\* `not os.getenv("OPENAI_API_KEY")`
KeyMissing(e) == ~Truthy(getenv(e))

\* Variant: the content is returned as it came, without strip().
ChatMessage_NoStrip(resp, lnk) ==
    IF resp.kind = "raise" THEN Return(FallbackMessage(lnk))
    ELSE IF resp.choices = << >> THEN Return(FallbackMessage(lnk))
    ELSE IF resp.choices[1].message.content.t # "str" THEN Return(FallbackMessage(lnk))
    ELSE Return(resp.choices[1].message.content.v)

\* Variant: no try/except around the call.
ChatMessage_NoExcept(resp, lnk) ==
    IF resp.kind = "raise" THEN Raise(Exc("APIError", <<"request failed">>))
    ELSE IF resp.choices = << >> THEN Raise(Exc("IndexError", <<"list index out of range">>))
    ELSE IF resp.choices[1].message.content.t # "str"
    THEN Raise(Exc("AttributeError", <<"'NoneType' object has no attribute 'strip'">>))
    ELSE Return(Strip(resp.choices[1].message.content.v))

\* ai_confirmation_message() from the create() call on: the str returned.
\* An APIError of create(), the IndexError of choices[0] and the
\* AttributeError of None.strip() all end in the except clause.
ChatMessage(resp, lnk) ==
    IF resp.kind = "raise" THEN Return(FallbackMessage(lnk))
    ELSE IF resp.choices = << >> THEN Return(FallbackMessage(lnk))
    ELSE IF resp.choices[1].message.content.t # "str" THEN Return(FallbackMessage(lnk))
    ELSE Return(Strip(resp.choices[1].message.content.v))

-----------------------------------------------------------------------------
(* Page elements (main area; the static header, uploader and button are not modelled) *)

InfoEl(name) ==
    [el |-> "info", body |-> <<"Uploading '">> \o name \o <<"' to generate a shareable link...">>]
WarningEl == [el |-> "warning", body |-> <<"Please upload a file first.">>]
SuccessEl == [el |-> "success", body |-> <<"Link generated successfully!">>]
WriteEl(text) == [el |-> "write", body |-> text]
CopyEl(value) == [el |-> "text_input", label |-> <<"Copy Link">>, body |-> value]
\* st.error(f"Failed to generate link: {e}"): str(e) keeps the message, not the type
ErrorEl(e) == [el |-> "error", body |-> <<"Failed to generate link: ">>, detail |-> e.msg, data |-> e.data]

\* main(), lines 113-118: what a run with a link renders before composing the message
RenderLink(pg, lnk) ==
    pg \o <<SuccessEl, WriteEl(<<"Global Link:">>), WriteEl(lnk), CopyEl(lnk)>>

\* main(), lines 124-125: the except clause
RenderError(pg, e) == Append(pg, ErrorEl(e))

\* Variant: the success status is written before the link is examined.
MainAfterUpload_SuccessFirst(pg, result) ==
    LET lnk == PyOr(Get(result.downloadPage), Get(result.directLink)) IN
    IF ~Truthy(lnk)
    THEN [ok |-> FALSE, link |-> lnk,
          page |-> RenderError(Append(pg, SuccessEl), Exc("RuntimeError",
                       <<"Failed to obtain a link from the hosting service.">>))]
    ELSE [ok |-> TRUE, link |-> lnk, page |-> RenderLink(pg, lnk.v)]

\* main(), lines 109-118: from the dict upload_to_gofile returned to the page
MainAfterUpload(pg, result) ==
    LET lnk == ResultLink(result) IN
    IF ~Truthy(lnk)
    THEN [ok |-> FALSE, link |-> lnk,
          page |-> RenderError(pg, Exc("RuntimeError",
                       <<"Failed to obtain a link from the hosting service.">>))]
    ELSE [ok |-> TRUE, link |-> lnk, page |-> RenderLink(pg, lnk.v)]

\* main(), lines 121-125: the message is written, or the except clause runs
RenderMessage(pg, r) == IF r.raised THEN RenderError(pg, r.exc) ELSE Append(pg, WriteEl(r.value))

\* Variant: the input is stored without the `if api_key` test.
SidebarEnv_Unconditional(e, k) == SetEnv(k)

\* main(), lines 83-84: the environment after the sidebar, given the input
SidebarEnv(e, k) == IF k # << >> THEN SetEnv(k) ELSE e

\* Variant: each session reads the key of its own sidebar.
Credential_OwnInput(s) == IF keyInput[s] # << >> THEN SetEnv(keyInput[s]) ELSE UnsetEnv

\* What os.getenv reads in a run of session s: the one variable of the process
Credential(s) == env

-----------------------------------------------------------------------------
(* Initial state *)

InitProcess ==
    /\ proc = "boot"
    /\ env \in {UnsetEnv, SetEnv(<< >>), SetEnv(<<"sk-env">>)}
    /\ lastWrite = [by |-> "environ", v |-> getenv(env)]
    /\ keyInput = [s \in Sessions |-> << >>]
    /\ uploaded = [s \in Sessions |-> NoFile]
    /\ clicked = [s \in Sessions |-> FALSE]
    /\ pc = [s \in Sessions |-> "sidebar"]
    /\ server = [s \in Sessions |-> Null]
    /\ link = [s \in Sessions |-> Null]
    /\ http = [s \in Sessions |-> << >>]
    /\ page = [s \in Sessions |-> << >>]

\* One session connected.
Init == live = {"s1"} /\ InitProcess

\* Every session connected.
InitShared == live = Sessions /\ InitProcess

-----------------------------------------------------------------------------
(* Actions *)

\* Line 7, client = OpenAI().  The constructor belongs to the openai package:
\* releases that require a key raise when the variable is unset, and then no
\* run gets as far as main().  The line runs before the sidebar can set the
\* variable, so its outcome is settled once, by the environment the process
\* started with.
CreateClient ==
    /\ proc = "boot"
    /\ \/ proc' = "up"
       \/ ~env.set /\ proc' = "crashed"
    /\ UNCHANGED <<live, env, lastWrite, keyInput, uploaded, clicked, pc, server, link, http, page>>

\* A widget interaction makes Streamlit run main() again for the session,
\* with a fresh page and fresh locals.
StartRun(s, click) ==
    /\ clicked' = [clicked EXCEPT ![s] = click]
    /\ pc' = [pc EXCEPT ![s] = "sidebar"]
    /\ server' = [server EXCEPT ![s] = Null]
    /\ link' = [link EXCEPT ![s] = Null]
    /\ http' = [http EXCEPT ![s] = << >>]
    /\ page' = [page EXCEPT ![s] = << >>]

\* The user edits the password field of the sidebar (line 82).
TypeKey(s) ==
    /\ proc = "up" /\ pc[s] = "idle"
    /\ \E k \in {<< >>} \cup Keys :
          /\ k # keyInput[s]
          /\ keyInput' = [keyInput EXCEPT ![s] = k]
    /\ StartRun(s, FALSE)
    /\ UNCHANGED <<live, proc, env, lastWrite, uploaded>>

\* The user picks or removes a file in the uploader (lines 89-94).
ChooseFile(s) ==
    /\ proc = "up" /\ pc[s] = "idle"
    /\ \E f \in {NoFile} \cup {File(n) : n \in FileNames} :
          /\ f # uploaded[s]
          /\ uploaded' = [uploaded EXCEPT ![s] = f]
    /\ StartRun(s, FALSE)
    /\ UNCHANGED <<live, proc, env, lastWrite, keyInput>>

\* The user presses "Generate Global Link"; the button is disabled while no
\* file is chosen (line 96).
ClickButton(s) ==
    /\ proc = "up" /\ pc[s] = "idle"
    /\ uploaded[s].present
    /\ StartRun(s, TRUE)
    /\ UNCHANGED <<live, proc, env, lastWrite, keyInput, uploaded>>

\* Lines 79-87: the sidebar; a non-empty input is stored in the environment.
Sidebar(s) ==
    /\ proc = "up" /\ pc[s] = "sidebar"
    /\ env' = SidebarEnv(env, keyInput[s])
    /\ lastWrite' = IF keyInput[s] # << >> THEN [by |-> s, v |-> Str(keyInput[s])] ELSE lastWrite
    /\ pc' = [pc EXCEPT ![s] = "button"]
    /\ UNCHANGED <<live, proc, keyInput, uploaded, clicked, server, link, http, page>>

\* Lines 96-102: the button; a run it did not trigger ends here.
Button(s) ==
    /\ proc = "up" /\ pc[s] = "button"
    /\ IF ~clicked[s]
       THEN /\ pc' = [pc EXCEPT ![s] = "idle"]
            /\ page' = page
       ELSE IF ~uploaded[s].present
       THEN /\ pc' = [pc EXCEPT ![s] = "idle"]
            /\ page' = [page EXCEPT ![s] = Append(@, WarningEl)]
       ELSE /\ pc' = [pc EXCEPT ![s] = "getServer"]
            /\ page' = [page EXCEPT ![s] = Append(@, InfoEl(uploaded[s].name))]
    /\ clicked' = [clicked EXCEPT ![s] = FALSE]
    /\ UNCHANGED <<live, proc, env, lastWrite, keyInput, uploaded, server, link, http>>

\* Lines 10-16 and 28, with the except clause of main when the call raises.
GetServer(s) ==
    /\ proc = "up" /\ pc[s] = "getServer"
    /\ \E resp \in DiscoveryAnswers :
          LET r == get_gofile_server(resp) IN
          /\ http' = [http EXCEPT ![s] =
                        Append(@, [ep |-> "getServer", url |-> <<"https://api.gofile.io/getServer">>,
                                   resp |-> resp])]
          /\ IF r.raised
             THEN /\ page' = [page EXCEPT ![s] = RenderError(@, r.exc)]
                  /\ pc' = [pc EXCEPT ![s] = "idle"]
                  /\ server' = server
             ELSE /\ server' = [server EXCEPT ![s] = r.value]
                  /\ pc' = [pc EXCEPT ![s] = "uploadFile"]
                  /\ page' = page
    /\ UNCHANGED <<live, proc, env, lastWrite, keyInput, uploaded, clicked, link>>

\* Lines 29-42 and 107-118, with the except clause of main when one of them raises.
UploadFile(s) ==
    /\ proc = "up" /\ pc[s] = "uploadFile"
    /\ \E resp \in UploadAnswers :
          LET r == upload_to_gofile(resp)
              m == MainAfterUpload(page[s], r.value)
          IN
          /\ http' = [http EXCEPT ![s] =
                        Append(@, [ep |-> "uploadFile", url |-> UploadUrl(server[s]),
                                   file |-> uploaded[s].name, resp |-> resp])]
          /\ IF r.raised
             THEN /\ page' = [page EXCEPT ![s] = RenderError(@, r.exc)]
                  /\ pc' = [pc EXCEPT ![s] = "idle"]
                  /\ link' = link
             ELSE /\ page' = [page EXCEPT ![s] = m.page]
                  /\ pc' = [pc EXCEPT ![s] = IF m.ok THEN "compose" ELSE "idle"]
                  /\ link' = [link EXCEPT ![s] = m.link]
    /\ UNCHANGED <<live, proc, env, lastWrite, keyInput, uploaded, clicked, server>>

\* Lines 50-53 and 70-71 (and 122 when it falls back): the credential check.
Compose(s) ==
    /\ proc = "up" /\ pc[s] = "compose"
    /\ IF KeyMissing(Credential(s))
       THEN /\ page' = [page EXCEPT ![s] = RenderMessage(@, Return(FallbackMessage(link[s].v)))]
            /\ pc' = [pc EXCEPT ![s] = "idle"]
       ELSE /\ pc' = [pc EXCEPT ![s] = "chat"]
            /\ page' = page
    /\ UNCHANGED <<live, proc, env, lastWrite, keyInput, uploaded, clicked, server, link, http>>

\* Lines 55-71 and 122: the generative-text call and what is made of its answer.
Chat(s) ==
    /\ proc = "up" /\ pc[s] = "chat"
    /\ \E resp \in ChatAnswers :
          /\ http' = [http EXCEPT ![s] =
                        Append(@, [ep |-> "chat", model |-> <<"gpt-4">>, link |-> link[s].v,
                                   file |-> uploaded[s].name, resp |-> resp])]
          /\ page' = [page EXCEPT ![s] = RenderMessage(@, ChatMessage(resp, link[s].v))]
    /\ pc' = [pc EXCEPT ![s] = "idle"]
    /\ UNCHANGED <<live, proc, env, lastWrite, keyInput, uploaded, clicked, server, link>>

Next ==
    \/ CreateClient
    \/ \E s \in live : TypeKey(s)
    \/ \E s \in live : ChooseFile(s)
    \/ \E s \in live : ClickButton(s)
    \/ \E s \in live : Sidebar(s)
    \/ \E s \in live : Button(s)
    \/ \E s \in live : GetServer(s)
    \/ \E s \in live : UploadFile(s)
    \/ \E s \in live : Compose(s)
    \/ \E s \in live : Chat(s)

Spec == Init /\ [][Next]_vars

SpecShared == InitShared /\ [][Next]_vars

-----------------------------------------------------------------------------
(* Vocabulary of the properties: read off the page and the exchanges of a run *)

Calls(s, ep) == {i \in DOMAIN http[s] : http[s][i].ep = ep}
Elements(s, el) == {i \in DOMAIN page[s] : page[s][i].el = el}

\* the texts shown under "Global Link:"
LinksShown(s) ==
    {page[s][i + 1].body : i \in {j \in 1..(Len(page[s]) - 1) : page[s][j] = WriteEl(<<"Global Link:">>)}}

OkStatus(resp) == resp.kind = "json" /\ resp.status = Str(<<"ok">>)

\* a field of the "data" object of an upload response, Absent when there is none
Field(resp, f) == IF resp.data.t = "dict" THEN resp.data[f] ELSE Absent

\* the field holds a non-empty string (an empty value counts as absent, as in
\* the data model's "expected non-empty")
Present(v) == v.t = "str" /\ Len(v.v) > 0

\* the discovery call failed: transport or HTTP error, unreadable body, status
\* other than "ok", or no data.server
DiscoveryFailed(resp) ==
    \/ resp.kind # "json"
    \/ resp.status # Str(<<"ok">>)
    \/ resp.data.t # "dict"
    \/ resp.data.server.t = "absent"

\* the upload call failed: transport failure, non-2xx status, or a body whose
\* status is not "ok"
UploadFailed(resp) ==
    \/ resp.kind \in {"transport", "http"}
    \/ resp.kind = "json" /\ resp.status # Str(<<"ok">>)

\* the upload answered with a link
LinkReturned(resp) ==
    /\ OkStatus(resp)
    /\ Present(Field(resp, "downloadPage")) \/ Present(Field(resp, "directLink"))

----------------------------------------------------------------------------
\* C1: when discovery and upload both succeed, the link shown is the upload
\* response's downloadPage if it is present, else its directLink; when neither
\* is present the run shows an error and no link, although both calls succeeded.
C1_LinkShown ==
    \A s \in live : \A i \in Calls(s, "uploadFile") :
        LET resp == http[s][i].resp
            dp == Field(resp, "downloadPage")
            dl == Field(resp, "directLink")
        IN  OkStatus(resp) =>
               IF Present(dp) THEN LinksShown(s) = {dp.v} /\ Elements(s, "error") = {}
               ELSE IF Present(dl) THEN LinksShown(s) = {dl.v} /\ Elements(s, "error") = {}
               ELSE /\ LinksShown(s) = {}
                    /\ Elements(s, "error") # {}
                    /\ Elements(s, "success") = {}
                    /\ Calls(s, "getServer") # {}

\* the download page is an empty string and the direct link is shown
C1_Witness ==
    \E s \in live : \E i \in Calls(s, "uploadFile") :
        /\ OkStatus(http[s][i].resp)
        /\ Field(http[s][i].resp, "downloadPage") = Str(<< >>)
        /\ LinksShown(s) = {Direct1}

\* C2: when the discovery call fails, the run makes no request to the upload
\* endpoint and ends with an error message.
C2_DiscoveryShortCircuit ==
    \A s \in live : \A i \in Calls(s, "getServer") :
        DiscoveryFailed(http[s][i].resp) =>
            /\ Calls(s, "uploadFile") = {}
            /\ pc[s] = "idle"
            /\ Len(http[s]) = 1
            /\ page[s][Len(page[s])].el = "error"

\* the discovery answered {"status": "error"} and the run ended with an error
C2_Witness ==
    \E s \in live :
        /\ Len(http[s]) = 1
        /\ http[s][1].resp = [kind |-> "json", status |-> Str(<<"error">>), data |-> Absent]
        /\ Elements(s, "error") # {}

\* C3: when the upload call fails, the run shows an error message with the
\* failure detail (for a status other than "ok": the response body), and
\* ai_confirmation_message is not called: no credential check, no chat
\* request, no message.
C3_UploadFailure ==
    \A s \in live : \A i \in Calls(s, "uploadFile") :
        LET resp == http[s][i].resp
            last == page[s][Len(page[s])]
        IN  UploadFailed(resp) =>
               /\ pc[s] = "idle"
               /\ Calls(s, "chat") = {}
               /\ Elements(s, "write") = {}
               /\ last.el = "error"
               /\ last.body = <<"Failed to generate link: ">>
               /\ last.detail # << >>
               /\ resp.kind = "json" =>
                     /\ last.detail = <<"Upload failed: ">>
                     /\ last.data = [kind |-> "repr", status |-> resp.status, data |-> resp.data]

\* the upload answered with status "error" and a body that carries links
C3_Witness ==
    \E s \in live : \E i \in Calls(s, "uploadFile") :
        /\ http[s][i].resp.kind = "json"
        /\ http[s][i].resp.status = Str(<<"error">>)
        /\ Present(Field(http[s][i].resp, "downloadPage"))
        /\ Elements(s, "error") # {}

\* C4: when ai_confirmation_message runs its check with OPENAI_API_KEY unset or
\* empty, it returns exactly "Your pitch deck is ready! Share this global
\* link: " followed by the link and makes no request to the chat endpoint.
C4_FallbackWithoutCredential ==
    [][\A s \in live :
          (pc[s] = "compose" /\ pc'[s] # "compose" /\ (~env.set \/ env.v = << >>)) =>
             /\ page'[s] = Append(page[s],
                    WriteEl(<<"Your pitch deck is ready! Share this global link: ">> \o link[s].v))
             /\ Len(link[s].v) > 0
             /\ http'[s] = http[s]
             /\ pc'[s] = "idle"]_vars

\* the variable is set to the empty string and the fallback is on the page
C4_Witness ==
    \E s \in live :
        /\ env = SetEnv(<< >>)
        /\ pc[s] = "idle"
        /\ Calls(s, "chat") = {}
        /\ Len(page[s]) = 6
        /\ page[s][6] = WriteEl(<<"Your pitch deck is ready! Share this global link: ">> \o Page1)

\* the text w with the whitespace at both ends removed, stated on its own:
\* w is t between two runs of whitespace, and t neither starts nor ends with one
IsTrimOf(t, w) ==
    /\ \E i \in 0..Len(w) : \E j \in i..Len(w) :
          /\ t = SubSeq(w, i + 1, j)
          /\ \A k \in (1..i) \cup ((j + 1)..Len(w)) : w[k] \in Whitespace
    /\ t # << >> => t[1] \notin Whitespace /\ t[Len(t)] \notin Whitespace

\* the chat call returned a completion with a text
Completed(resp) ==
    /\ resp.kind = "ok"
    /\ Len(resp.choices) > 0
    /\ resp.choices[1].message.content.t = "str"

\* C5: with a credential present, a chat call that raises or returns no
\* choices or no content yields the fallback text with the link, never an
\* error; any other text is the first choice's content, trimmed, of a call
\* that succeeded.
C5_ComposerNeverFails ==
    \A s \in live : \A i \in Calls(s, "chat") :
        LET resp == http[s][i].resp
            last == page[s][Len(page[s])]
            fallback == <<"Your pitch deck is ready! Share this global link: ">> \o http[s][i].link
        IN  /\ Elements(s, "error") = {}
            /\ last.el = "write"
            /\ ~Completed(resp) => last.body = fallback
            /\ Completed(resp) => IsTrimOf(last.body, resp.choices[1].message.content.v)
            /\ http[s][i].link = link[s].v

\* two choices, the first with whitespace around its text, and the trimmed text shown
C5_Witness ==
    \E s \in live : \E i \in Calls(s, "chat") :
        /\ http[s][i].resp.kind = "ok"
        /\ Len(http[s][i].resp.choices) = 2
        /\ http[s][i].resp.choices[1].message.content = Str(<<" ", "a">>)
        /\ page[s][Len(page[s])] = WriteEl(<<"a">>)

\* C6: when discovery and upload succeed and a link is obtained, the run shows
\* the success status, the link, a copy field holding exactly that link and,
\* once it has ended, a confirmation message, whether or not composing the
\* message failed; it never shows an error.
C6_SuccessDespiteComposition ==
    \A s \in live : \A i \in Calls(s, "uploadFile") :
        LET resp == http[s][i].resp
            dp == Field(resp, "downloadPage")
            lnk == IF Present(dp) THEN dp.v ELSE Field(resp, "directLink").v
        IN  LinkReturned(resp) =>
               /\ Len(page[s]) >= 5
               /\ SubSeq(page[s], 2, 5) =
                     <<SuccessEl, WriteEl(<<"Global Link:">>), WriteEl(lnk), CopyEl(lnk)>>
               /\ Elements(s, "error") = {}
               /\ pc[s] \in {"compose", "chat", "idle"}
               /\ pc[s] = "idle" => Len(page[s]) = 6 /\ page[s][6].el = "write"
               /\ pc[s] # "idle" => Len(page[s]) = 5

\* the chat call raised and the page still reports success with the link
C6_Witness ==
    \E s \in live :
        /\ Len(http[s]) = 3
        /\ http[s][3].resp.kind = "raise"
        /\ Elements(s, "success") # {}
        /\ page[s][5] = CopyEl(Page1)

\* C7: a run makes at most one discovery request, then at most one upload
\* request, only after the discovery returned a server and to that server, then
\* at most one chat request, only after the upload returned a link; a failed
\* call is never repeated.
C7_SequentialSingleShot ==
    \A s \in live :
        /\ Len(http[s]) <= 3
        /\ \A i \in DOMAIN http[s] : http[s][i].ep = <<"getServer", "uploadFile", "chat">>[i]
        /\ Len(http[s]) >= 2 =>
              /\ ~DiscoveryFailed(http[s][1].resp)
              /\ http[s][1].resp.data.server.t = "str" =>
                    http[s][2].url =
                        <<"https://">> \o http[s][1].resp.data.server.v \o <<".gofile.io/uploadFile">>
        /\ Len(http[s]) = 3 =>
              /\ LinkReturned(http[s][2].resp)
              /\ http[s][3].link \in {Field(http[s][2].resp, f).v :
                                        f \in {g \in {"downloadPage", "directLink"} :
                                                 Present(Field(http[s][2].resp, g))}}
        /\ Len(http[s]) = 1 /\ DiscoveryFailed(http[s][1].resp) => pc[s] = "idle"
        /\ Len(http[s]) = 2 /\ ~LinkReturned(http[s][2].resp) => pc[s] = "idle"

\* all three calls made, the upload sent to the second server
C7_Witness ==
    \E s \in live :
        /\ Len(http[s]) = 3
        /\ http[s][1].resp.data.server = Str(<<"store2">>)
        /\ http[s][2].url = <<"https://", "store2", ".gofile.io/uploadFile">>

\* a run failed upstream: the discovery failed, or the upload did not yield a link
UpstreamFailed(s) ==
    \/ \E i \in Calls(s, "getServer") : DiscoveryFailed(http[s][i].resp)
    \/ \E i \in Calls(s, "uploadFile") : ~LinkReturned(http[s][i].resp)

\* C8: when discovery or upload fails, the run shows one error message and
\* ends: no success status, no link, no copy field, no confirmation message;
\* and the next run starts from nothing the earlier run left.
C8_FailureIsClean ==
    /\ [](\A s \in live :
            UpstreamFailed(s) =>
               /\ pc[s] = "idle"
               /\ Cardinality(Elements(s, "error")) = 1
               /\ Elements(s, "success") = {}
               /\ Elements(s, "write") = {}
               /\ Elements(s, "text_input") = {}
               /\ LinksShown(s) = {})
    /\ [][\A s \in live :
            pc[s] = "idle" /\ pc'[s] # "idle" =>
               /\ page'[s] = << >>
               /\ http'[s] = << >>
               /\ server'[s] = Null
               /\ link'[s] = Null]_vars

\* the upload succeeded without any link and the page holds the notice and one error
C8_Witness ==
    \E s \in live :
        /\ Len(http[s]) = 2
        /\ OkStatus(http[s][2].resp)
        /\ Len(page[s]) = 2
        /\ page[s][2].el = "error"

====
